---- MODULE Spec2Model ----
(***************************************************************************)
(* Celery tasks of Spleeter Web (src/api/tasks.py): create_static_mix,     *)
(* create_dynamic_mix and fetch_youtube_audio, each run by a worker for    *)
(* one job id.  The state is the database rows, the worker's in-memory     *)
(* model objects, the local media directories, the external file storage   *)
(* and every worker's position in its task.                                *)
(*                                                                         *)
(* External components are modelled by their possible outcomes: the        *)
(* separator / downloader returns (having written all, some or none of its *)
(* output), raises FileNotFoundError, raises another exception, or is      *)
(* interrupted by the queue's SoftTimeLimitExceeded; a save that has to    *)
(* upload not yet committed file content to external storage succeeds or   *)
(* raises.  Saves of plain column values succeed.                          *)
(***************************************************************************)
EXTENDS Integers, FiniteSets, Sequences, TLC

\* ---------------------------------------------------------------- bounds
\* settings.YOUTUBE_MAX_RETRIES (tasks.py:168), a Django setting
YOUTUBE_MAX_RETRIES == 2
\* how many times the queue may be handed a mix task for the same id
MaxRuns == 2

\* ------------------------------------------------------------- constants
JobIds == {"id1", "id2"}
Kinds == {"static", "dynamic", "fetch"}

QUEUED == "Queued"
IN_PROGRESS == "In Progress"
DONE == "Done"
ERROR == "Error"

\* parts = ['vocals', 'other', 'bass', 'drums']
parts == <<"vocals", "other", "bass", "drums">>

\* slugify(...formatted_name()): the prefix the renamed files carry
file_prefix == "song"
\* os.path.join(rel_path, f'{part}.mp3')
PartPath(part) == part \o ".mp3"
\* os.path.join(rel_path, f'{file_prefix}-{part}.mp3')
PrefixedPath(part) == file_prefix \o "-" \o part \o ".mp3"
\* filename = slugify(...) + '.mp3'  /  slugify(...) + get_file_ext(link)
filename == file_prefix \o ".mp3"

\* the four stem files the external separator writes into the directory
\* it is given
SeparatorFiles == {"vocals.mp3", "other.mp3", "bass.mp3", "drums.mp3"}

\* messages of the exceptions the model raises
MsgNotWritten == "Error writing to file"
MsgNoFFmpeg == "No such file or directory: ffmpeg"
MsgExternal == "separator or downloader failed"
MsgStorage == "storage upload failed"
MsgNotEmpty == "Directory not empty"
MsgTimeout == "SoftTimeLimitExceeded()"
MsgNoTask == "YTAudioDownloadTask matching query does not exist"

\* a FileField value: empty, a name on the local media root, file content
\* held in memory and not yet committed, or a file committed to the
\* external storage
NoFile == [st |-> "none", names |-> {}]
NameFile(ns) == [st |-> "name", names |-> ns]
ContentFile(ns) == [st |-> "content", names |-> ns]
StoredFile(ns) == [st |-> "stored", names |-> ns]

NoDir == [exists |-> FALSE, files |-> {}]

VARIABLES
    is_local,     \* settings.DEFAULT_FILE_STORAGE is FileSystemStorage
    kind,         \* which task the queue runs for each job id
    db,           \* persisted job row: StaticMix / DynamicMix / YTAudioDownloadTask
    SourceFile,   \* persisted SourceFile row (fetch_youtube_audio)
    obj,          \* the worker's model object: static_mix / dynamic_mix / fetch_task
    source_file,  \* the worker's SourceFile object
    fs,           \* local directory of the job under MEDIA_ROOT
    ext,          \* files held by the external storage, per job
    pc,           \* position of the worker in the task
    error,        \* message of the exception in flight
    attempt,      \* number of the current run of the task for this id
    invoked,      \* the separator / downloader has been called in this run
    checked,      \* result of this run's output check: "no", "pass", "fail"
    removed,      \* local files this run has deleted
    produced      \* the separator / downloader wrote local output in this run

vars == <<is_local, kind, db, SourceFile, obj, source_file, fs, ext, pc,
          error, attempt, invoked, checked, removed, produced>>

settings == <<is_local, kind>>
history == <<invoked, checked, removed, produced>>



\* ------------------------------------------------------------------ rows
\* a row as the view that queued the task created it
NewRow == [exists |-> TRUE, status |-> QUEUED, error |-> "", file |-> NoFile]
NoRow == [exists |-> FALSE, status |-> QUEUED, error |-> "", file |-> NoFile]

\* The state when the queue hands the tasks of the ids in `queued` to
\* workers: the storage setting, the task of each id, its rows as the view
\* created them (or already deleted: a stale task), no directory yet.
InitQueued(queued) ==
    /\ is_local \in BOOLEAN
    /\ kind \in [JobIds -> Kinds]
    /\ db \in [JobIds -> {NewRow, NoRow}]
    /\ SourceFile \in [JobIds -> {NewRow, NoRow}]
    /\ \A j \in JobIds : kind[j] # "fetch" => SourceFile[j] = NoRow
    /\ \A j \in JobIds \ queued : kind[j] = "static" /\ db[j] = NewRow
    \* the view creates the download task row before the SourceFile row that
    \* refers to it; fetch_youtube_audio reads it outside any try
    /\ \A j \in JobIds : SourceFile[j].exists => db[j].exists
    /\ obj = [j \in JobIds |-> NoRow]
    /\ source_file = [j \in JobIds |-> NoRow]
    /\ fs = [j \in JobIds |-> NoDir]
    /\ ext = [j \in JobIds |-> {}]
    /\ pc = [j \in JobIds |-> IF j \in queued THEN "start" ELSE "idle"]
    /\ error = [j \in JobIds |-> ""]
    /\ attempt = [j \in JobIds |-> 1]
    /\ invoked = [j \in JobIds |-> FALSE]
    /\ checked = [j \in JobIds |-> "no"]
    /\ removed = [j \in JobIds |-> {}]
    /\ produced = [j \in JobIds |-> FALSE]

\* one worker, one task
Init == \E j \in JobIds : InitQueued({j})

\* every id has a task on its own worker
InitParallel == InitQueued(JobIds)

\* --------------------------------------------------------------- helpers
\* slip: the lookup never reports a missing row (get_or_create for get)
DoesNotExist_never(row) == FALSE

\* <Model>.objects.get(id=...) raises <Model>.DoesNotExist
DoesNotExist(row) == ~row.exists

\* <model>.status = TaskStatus.IN_PROGRESS
MarkInProgress(o) == [o EXCEPT !.status = IN_PROGRESS]

\* <model>.status = TaskStatus.DONE
MarkDone(o) == [o EXCEPT !.status = DONE]

\* <model>.status = TaskStatus.ERROR; <model>.error = str(error)
MarkError(o, msg) == [o EXCEPT !.status = ERROR, !.error = msg]

\* pre_save of a FileField: content not yet committed is written to the storage
NeedsUpload(o) == o.file.st = "content"
Committed(o) ==
    IF NeedsUpload(o) THEN [o EXCEPT !.file = StoredFile(o.file.names)] ELSE o
Uploaded(o) == IF NeedsUpload(o) THEN o.file.names ELSE {}

\* slip: the check is made on the job directory, which mkdir has created
exists_of_directory(files, path) == TRUE

\* os.path.exists(path)
exists(files, path) == path \in files

\* pathlib.Path(directory).mkdir(parents=True, exist_ok=True)
mkdir(d) == [d EXCEPT !.exists = TRUE]

\* os.remove(rel_path)
RemoveFile(d, name) == [d EXCEPT !.files = @ \ {name}]

\* os.rmdir(rel_path_dir) raises OSError on a directory that is not empty
RmdirRaises(d) == d.files # {}

\* what the output check of a run really had on the disk
OnDisk(files, wanted) == IF wanted \subseteq files THEN "pass" ELSE "fail"

\* the per-run bookkeeping starts afresh with every run of a task
NewRun(j) ==
    /\ invoked' = [invoked EXCEPT ![j] = FALSE]
    /\ checked' = [checked EXCEPT ![j] = "no"]
    /\ removed' = [removed EXCEPT ![j] = {}]
    /\ produced' = [produced EXCEPT ![j] = FALSE]

\* the task returns or raises: its local objects and the exception are gone
Leave(j, how) ==
    /\ pc' = [pc EXCEPT ![j] = how]
    /\ obj' = [obj EXCEPT ![j] = NoRow]
    /\ source_file' = [source_file EXCEPT ![j] = NoRow]
    /\ error' = [error EXCEPT ![j] = ""]

\* the exception goes to an except clause
Raise(j, handler, msg) ==
    /\ pc' = [pc EXCEPT ![j] = handler]
    /\ error' = [error EXCEPT ![j] = msg]

\* what the external separator / downloader can do when called
Outcomes == {"returns", "FileNotFoundError", "Exception", "SoftTimeLimitExceeded"}

\* the except clause of a mix task that takes the exception
MixHandler(outcome) ==
    CASE outcome = "FileNotFoundError" -> "except_fnf"
      [] outcome = "SoftTimeLimitExceeded" -> "except_timeout"
      [] OTHER -> "except"

\* fetch_youtube_audio has no FileNotFoundError clause
FetchHandler(outcome) ==
    IF outcome = "SoftTimeLimitExceeded" THEN "except_timeout" ELSE "except"

RaisedMsg(outcome) ==
    CASE outcome = "FileNotFoundError" -> MsgNoFFmpeg
      [] outcome = "SoftTimeLimitExceeded" -> MsgTimeout
      [] OTHER -> MsgExternal

\* the call of the external separator / downloader: it returns, having
\* written some of the files it was asked for, or it raises
External(j, asked, handler) ==
    /\ invoked' = [invoked EXCEPT ![j] = TRUE]
    /\ \E outcome \in Outcomes :
          IF outcome = "returns"
          THEN /\ \E written \in SUBSET asked :
                     /\ fs' = [fs EXCEPT ![j].files = @ \cup written]
                     /\ produced' = [produced EXCEPT ![j] = written # {}]
               /\ pc' = [pc EXCEPT ![j] = "check"]
               /\ UNCHANGED error
          ELSE /\ Raise(j, handler[outcome], RaisedMsg(outcome))
               /\ UNCHANGED <<fs, produced>>
    /\ UNCHANGED <<settings, db, SourceFile, obj, source_file, ext,
                   attempt, checked, removed>>

\* ---------------------------------------------------- create_static_mix
\* slip: the status is written with an update of the whole table instead
\* of a save of the one row
static_get_all_rows(j) ==
    /\ kind[j] = "static" /\ pc[j] = "start"
    /\ IF DoesNotExist(db[j])
       THEN /\ pc' = [pc EXCEPT ![j] = "stale"]
            /\ UNCHANGED <<db, obj>>
       ELSE /\ obj' = [obj EXCEPT ![j] = MarkInProgress(db[j])]
            /\ db' = [k \in JobIds |->
                        IF db[k].exists /\ kind[k] = "static"
                        THEN MarkInProgress(db[k]) ELSE db[k]]
            /\ pc' = [pc EXCEPT ![j] = "mkdir"]
    /\ UNCHANGED <<settings, SourceFile, source_file, fs, ext, error,
                   attempt, history>>

\* StaticMix.objects.get(id=...), the stale-task return, and marking the
\* row as in progress
static_get(j) ==
    /\ kind[j] = "static" /\ pc[j] = "start"
    /\ IF DoesNotExist(db[j])
       THEN /\ pc' = [pc EXCEPT ![j] = "stale"]
            /\ UNCHANGED <<db, obj>>
       ELSE /\ obj' = [obj EXCEPT ![j] = MarkInProgress(db[j])]
            /\ db' = [db EXCEPT ![j] = MarkInProgress(db[j])]
            /\ pc' = [pc EXCEPT ![j] = "mkdir"]
    /\ UNCHANGED <<settings, SourceFile, source_file, fs, ext, error,
                   attempt, history>>

\* the paths and the job directory
static_mkdir(j) ==
    /\ kind[j] = "static" /\ pc[j] = "mkdir"
    /\ fs' = [fs EXCEPT ![j] = mkdir(fs[j])]
    /\ pc' = [pc EXCEPT ![j] = "separate"]
    /\ UNCHANGED <<settings, db, SourceFile, obj, source_file, ext, error,
                   attempt, history>>

\* separator.create_static_mix(parts, path, rel_path)
static_separate(j) ==
    /\ kind[j] = "static" /\ pc[j] = "separate"
    /\ External(j, {filename}, [o \in Outcomes |-> MixHandler(o)])

\* if os.path.exists(rel_path): ... else: raise Exception('Error writing to file')
static_check(j) ==
    /\ kind[j] = "static" /\ pc[j] = "check"
    /\ checked' = [checked EXCEPT ![j] = OnDisk(fs[j].files, {filename})]
    /\ IF exists(fs[j].files, filename)
       THEN IF is_local
            THEN /\ obj' = [obj EXCEPT ![j] =
                              [MarkDone(@) EXCEPT !.file = NameFile({filename})]]
                 /\ pc' = [pc EXCEPT ![j] = "save"]
                 /\ UNCHANGED <<fs, removed, error>>
            ELSE /\ obj' = [obj EXCEPT ![j] =
                              [MarkDone(@) EXCEPT !.file = ContentFile({filename})]]
                 /\ removed' = [removed EXCEPT ![j] = @ \cup {filename}]
                 /\ IF RmdirRaises(RemoveFile(fs[j], filename))
                    THEN /\ fs' = [fs EXCEPT ![j] = RemoveFile(@, filename)]
                         /\ Raise(j, "except", MsgNotEmpty)
                    ELSE /\ fs' = [fs EXCEPT ![j] = NoDir]
                         /\ pc' = [pc EXCEPT ![j] = "save"]
                         /\ UNCHANGED error
       ELSE /\ Raise(j, "except", MsgNotWritten)
            /\ UNCHANGED <<obj, fs, removed>>
    /\ UNCHANGED <<settings, db, SourceFile, source_file, ext,
                   attempt, invoked, produced>>

\* static_mix.save() at the end of the try block
static_save(j) ==
    /\ kind[j] = "static" /\ pc[j] = "save"
    /\ \/ /\ db' = [db EXCEPT ![j] = Committed(obj[j])]
          /\ ext' = [ext EXCEPT ![j] = @ \cup Uploaded(obj[j])]
          /\ Leave(j, "done")
       \/ /\ NeedsUpload(obj[j])
          /\ Raise(j, "except", MsgStorage)
          /\ UNCHANGED <<db, ext, obj, source_file>>
    /\ UNCHANGED <<settings, SourceFile, fs, attempt, history>>

\* the body shared by "except FileNotFoundError as error" and
\* "except Exception as error" of the two mix tasks: record the error on
\* the object and save it; the save raises out of the task when its upload
\* fails
MixRecordError(j) ==
    /\ \/ /\ db' = [db EXCEPT ![j] = Committed(MarkError(obj[j], error[j]))]
          /\ ext' = [ext EXCEPT ![j] = @ \cup Uploaded(obj[j])]
          /\ Leave(j, "handled")
       \/ /\ NeedsUpload(obj[j])
          /\ Leave(j, "raised")
          /\ UNCHANGED <<db, ext>>
    /\ UNCHANGED <<settings, SourceFile, fs, attempt, history>>

\* slip: the soft timeout falls through to the clause that records errors
Aborted_recording_error(j) == MixRecordError(j)

\* except SoftTimeLimitExceeded: print('Aborted!')
Aborted(j) ==
    /\ Leave(j, "aborted")
    /\ UNCHANGED <<settings, db, SourceFile, fs, ext, attempt, history>>

\* except FileNotFoundError as error
static_except_fnf(j) ==
    /\ kind[j] = "static" /\ pc[j] = "except_fnf"
    /\ MixRecordError(j)

\* except SoftTimeLimitExceeded
static_except_timeout(j) ==
    /\ kind[j] = "static" /\ pc[j] = "except_timeout"
    /\ Aborted(j)

\* except Exception as error
static_except(j) ==
    /\ kind[j] = "static" /\ pc[j] = "except"
    /\ MixRecordError(j)

create_static_mix(j) ==
    \/ static_get(j)
    \/ static_mkdir(j)
    \/ static_separate(j)
    \/ static_check(j)
    \/ static_save(j)
    \/ static_except_fnf(j)
    \/ static_except_timeout(j)
    \/ static_except(j)

\* --------------------------------------------------- create_dynamic_mix
\* for part in parts: if not os.path.exists(rel_part_path): return False
\* return True                      (the loop from the i-th part on)
RECURSIVE ExistsFrom(_, _)
ExistsFrom(files, i) ==
    IF i > Len(parts) THEN TRUE
    ELSE IF ~exists(files, PartPath(parts[i])) THEN FALSE
    ELSE ExistsFrom(files, i + 1)

\* slip: the loop starts at the second part
exists_all_parts_skip_first(files) == ExistsFrom(files, 2)

exists_all_parts(files) == ExistsFrom(files, 1)

\* os.rename(old_rel_path, new_rel_path), for the first n parts in turn
RECURSIVE RenameParts(_, _)
RenameParts(files, n) ==
    IF n = 0 THEN files
    ELSE (RenameParts(files, n - 1) \ {PartPath(parts[n])})
             \cup {PrefixedPath(parts[n])}

rename_all_parts(files) == RenameParts(files, Len(parts))

\* slip: the file fields are given the names the parts had before
\* rename_all_parts
LocalPartNames_unprefixed ==
    {"vocals.mp3", "other.mp3", "bass.mp3", "drums.mp3"}

\* the names save_to_local_storage gives the four file fields
LocalPartNames ==
    {file_prefix \o "-vocals.mp3", file_prefix \o "-other.mp3",
     file_prefix \o "-bass.mp3", file_prefix \o "-drums.mp3"}

\* the files save_to_ext_storage opens and reads
ExtPartNames ==
    {file_prefix \o "-vocals.mp3", file_prefix \o "-other.mp3",
     file_prefix \o "-bass.mp3", file_prefix \o "-drums.mp3"}

dynamic_get(j) ==
    /\ kind[j] = "dynamic" /\ pc[j] = "start"
    /\ IF DoesNotExist(db[j])
       THEN /\ pc' = [pc EXCEPT ![j] = "stale"]
            /\ UNCHANGED <<db, obj>>
       ELSE /\ obj' = [obj EXCEPT ![j] = MarkInProgress(db[j])]
            /\ db' = [db EXCEPT ![j] = MarkInProgress(db[j])]
            /\ pc' = [pc EXCEPT ![j] = "mkdir"]
    /\ UNCHANGED <<settings, SourceFile, source_file, fs, ext, error,
                   attempt, history>>

dynamic_mkdir(j) ==
    /\ kind[j] = "dynamic" /\ pc[j] = "mkdir"
    /\ fs' = [fs EXCEPT ![j] = mkdir(fs[j])]
    /\ pc' = [pc EXCEPT ![j] = "separate"]
    /\ UNCHANGED <<settings, db, SourceFile, obj, source_file, ext, error,
                   attempt, history>>

\* separator.separate_into_parts(path, rel_path)
dynamic_separate(j) ==
    /\ kind[j] = "dynamic" /\ pc[j] = "separate"
    /\ External(j, SeparatorFiles, [o \in Outcomes |-> MixHandler(o)])

\* if exists_all_parts(rel_path): rename_all_parts(...); status = DONE
\* else: raise Exception('Error writing to file')
dynamic_check(j) ==
    /\ kind[j] = "dynamic" /\ pc[j] = "check"
    /\ checked' = [checked EXCEPT ![j] = OnDisk(fs[j].files, SeparatorFiles)]
    /\ IF exists_all_parts(fs[j].files)
       THEN /\ fs' = [fs EXCEPT ![j].files = rename_all_parts(@)]
            /\ obj' = [obj EXCEPT ![j] = MarkDone(@)]
            /\ pc' = [pc EXCEPT ![j] = "store"]
            /\ UNCHANGED error
       ELSE /\ Raise(j, "except", MsgNotWritten)
            /\ UNCHANGED <<obj, fs>>
    /\ UNCHANGED <<settings, db, SourceFile, source_file, ext,
                   attempt, invoked, removed, produced>>

\* save_to_local_storage(dynamic_mix, rel_media_path, file_prefix)
save_to_local_storage(j) ==
    /\ kind[j] = "dynamic" /\ pc[j] = "store" /\ is_local
    /\ db' = [db EXCEPT ![j] = [obj[j] EXCEPT !.file = NameFile(LocalPartNames)]]
    /\ Leave(j, "done")
    /\ UNCHANGED <<settings, SourceFile, fs, ext, attempt, history>>

\* save_to_ext_storage(dynamic_mix, rel_path, file_prefix) up to its
\* dynamic_mix.save(); open() raises FileNotFoundError on a missing file
save_to_ext_storage(j) ==
    /\ kind[j] = "dynamic" /\ pc[j] = "store" /\ ~is_local
    /\ IF ~(ExtPartNames \subseteq fs[j].files)
       THEN /\ Raise(j, "except_fnf", MsgNoFFmpeg)
            /\ UNCHANGED <<db, ext, obj>>
       ELSE \/ /\ db' = [db EXCEPT ![j] =
                           [obj[j] EXCEPT !.file = StoredFile(ExtPartNames)]]
               /\ ext' = [ext EXCEPT ![j] = @ \cup ExtPartNames]
               /\ obj' = [obj EXCEPT ![j].file = StoredFile(ExtPartNames)]
               /\ pc' = [pc EXCEPT ![j] = "rmtree"]
               /\ UNCHANGED error
            \/ /\ obj' = [obj EXCEPT ![j].file = ContentFile(ExtPartNames)]
               /\ Raise(j, "except", MsgStorage)
               /\ UNCHANGED <<db, ext>>
    /\ UNCHANGED <<settings, SourceFile, source_file, fs, attempt, history>>

\* shutil.rmtree(rel_path_dir, ignore_errors=True), the last statement of
\* save_to_ext_storage
rmtree(j) ==
    /\ kind[j] = "dynamic" /\ pc[j] = "rmtree"
    /\ removed' = [removed EXCEPT ![j] = @ \cup fs[j].files]
    /\ fs' = [fs EXCEPT ![j] = NoDir]
    /\ Leave(j, "done")
    /\ UNCHANGED <<settings, db, SourceFile, ext, attempt,
                   invoked, checked, produced>>

dynamic_except_fnf(j) ==
    /\ kind[j] = "dynamic" /\ pc[j] = "except_fnf"
    /\ MixRecordError(j)

dynamic_except_timeout(j) ==
    /\ kind[j] = "dynamic" /\ pc[j] = "except_timeout"
    /\ Aborted(j)

dynamic_except(j) ==
    /\ kind[j] = "dynamic" /\ pc[j] = "except"
    /\ MixRecordError(j)

create_dynamic_mix(j) ==
    \/ dynamic_get(j)
    \/ dynamic_mkdir(j)
    \/ dynamic_separate(j)
    \/ dynamic_check(j)
    \/ save_to_local_storage(j)
    \/ save_to_ext_storage(j)
    \/ rmtree(j)
    \/ dynamic_except_fnf(j)
    \/ dynamic_except_timeout(j)
    \/ dynamic_except(j)

\* -------------------------------------------------- fetch_youtube_audio
\* SourceFile.objects.get(id=...), the stale-task return,
\* YTAudioDownloadTask.objects.get(id=...) outside any try, and marking the
\* download task as in progress
fetch_get(j) ==
    /\ kind[j] = "fetch" /\ pc[j] = "start"
    /\ IF DoesNotExist(SourceFile[j])
       THEN /\ pc' = [pc EXCEPT ![j] = "stale"]
            /\ UNCHANGED <<db, obj, source_file, error>>
       ELSE IF DoesNotExist(db[j])
       THEN /\ Raise(j, "retry", MsgNoTask)
            /\ UNCHANGED <<db, obj, source_file>>
       ELSE /\ source_file' = [source_file EXCEPT ![j] = SourceFile[j]]
            /\ obj' = [obj EXCEPT ![j] = MarkInProgress(db[j])]
            /\ db' = [db EXCEPT ![j] = MarkInProgress(db[j])]
            /\ pc' = [pc EXCEPT ![j] = "mkdir"]
            /\ UNCHANGED error
    /\ UNCHANGED <<settings, SourceFile, fs, ext, attempt, history>>

fetch_mkdir(j) ==
    /\ kind[j] = "fetch" /\ pc[j] = "mkdir"
    /\ fs' = [fs EXCEPT ![j] = mkdir(fs[j])]
    /\ pc' = [pc EXCEPT ![j] = "separate"]
    /\ UNCHANGED <<settings, db, SourceFile, obj, source_file, ext, error,
                   attempt, history>>

\* download_audio(link, rel_path)
download_audio(j) ==
    /\ kind[j] = "fetch" /\ pc[j] = "separate"
    /\ External(j, {filename}, [o \in Outcomes |-> FetchHandler(o)])

\* if os.path.exists(rel_path): ... else: raise Exception('Error writing to file')
fetch_check(j) ==
    /\ kind[j] = "fetch" /\ pc[j] = "check"
    /\ checked' = [checked EXCEPT ![j] = OnDisk(fs[j].files, {filename})]
    /\ IF exists(fs[j].files, filename)
       THEN /\ obj' = [obj EXCEPT ![j] = MarkDone(@)]
            /\ IF is_local
               THEN /\ source_file' = [source_file EXCEPT ![j].file =
                                         NameFile({filename})]
                    /\ pc' = [pc EXCEPT ![j] = "save"]
                    /\ UNCHANGED <<fs, removed, error>>
               ELSE /\ source_file' = [source_file EXCEPT ![j].file =
                                         ContentFile({filename})]
                    /\ removed' = [removed EXCEPT ![j] = @ \cup {filename}]
                    /\ IF RmdirRaises(RemoveFile(fs[j], filename))
                       THEN /\ fs' = [fs EXCEPT ![j] = RemoveFile(@, filename)]
                            /\ Raise(j, "except", MsgNotEmpty)
                       ELSE /\ fs' = [fs EXCEPT ![j] = NoDir]
                            /\ pc' = [pc EXCEPT ![j] = "save"]
                            /\ UNCHANGED error
       ELSE /\ Raise(j, "except", MsgNotWritten)
            /\ UNCHANGED <<obj, source_file, fs, removed>>
    /\ UNCHANGED <<settings, db, SourceFile, ext, attempt, invoked, produced>>

\* fetch_task.save()
fetch_save_task(j) ==
    /\ kind[j] = "fetch" /\ pc[j] = "save"
    /\ db' = [db EXCEPT ![j] = obj[j]]
    /\ pc' = [pc EXCEPT ![j] = "save_source"]
    /\ UNCHANGED <<settings, SourceFile, obj, source_file, fs, ext, error,
                   attempt, history>>

\* source_file.save()
fetch_save_source(j) ==
    /\ kind[j] = "fetch" /\ pc[j] = "save_source"
    /\ \/ /\ SourceFile' = [SourceFile EXCEPT ![j] = Committed(source_file[j])]
          /\ ext' = [ext EXCEPT ![j] = @ \cup Uploaded(source_file[j])]
          /\ Leave(j, "done")
       \/ /\ NeedsUpload(source_file[j])
          /\ Raise(j, "except", MsgStorage)
          /\ UNCHANGED <<SourceFile, ext, obj, source_file>>
    /\ UNCHANGED <<settings, db, fs, attempt, history>>

\* except SoftTimeLimitExceeded: print('Aborted!')
fetch_except_timeout(j) ==
    /\ kind[j] = "fetch" /\ pc[j] = "except_timeout"
    /\ Aborted(j)

\* except Exception as error: ... fetch_task.save(); raise error
fetch_except(j) ==
    /\ kind[j] = "fetch" /\ pc[j] = "except"
    /\ obj' = [obj EXCEPT ![j] = MarkError(@, error[j])]
    /\ db' = [db EXCEPT ![j] = MarkError(obj[j], error[j])]
    /\ pc' = [pc EXCEPT ![j] = "retry"]
    /\ UNCHANGED <<settings, SourceFile, source_file, fs, ext, error,
                   attempt, history>>

\* slip: one retry too many
CanRetry_off_by_one(n) == n - 1 <= YOUTUBE_MAX_RETRIES

\* retry_kwargs={'max_retries': settings.YOUTUBE_MAX_RETRIES}: the n-th run
\* is retried while fewer than max_retries retries have been made
CanRetry(n) == n - 1 < YOUTUBE_MAX_RETRIES

\* autoretry_for=(Exception, ): an exception that leaves the task is
\* retried until the retries are used up, then the task fails with it
autoretry(j) ==
    /\ kind[j] = "fetch" /\ pc[j] = "retry"
    /\ IF CanRetry(attempt[j])
       THEN /\ attempt' = [attempt EXCEPT ![j] = @ + 1]
            /\ Leave(j, "start")
            /\ NewRun(j)
       ELSE /\ Leave(j, "raised")
            /\ UNCHANGED <<attempt, history>>
    /\ UNCHANGED <<settings, db, SourceFile, fs, ext>>

fetch_youtube_audio(j) ==
    \/ fetch_get(j)
    \/ fetch_mkdir(j)
    \/ download_audio(j)
    \/ fetch_check(j)
    \/ fetch_save_task(j)
    \/ fetch_save_source(j)
    \/ fetch_except_timeout(j)
    \/ fetch_except(j)
    \/ autoretry(j)

\* ------------------------------------------------------------ the queue
\* @app.task(): a mix task that has ended can be queued again for its id
Requeue(j) ==
    /\ kind[j] \in {"static", "dynamic"}
    /\ pc[j] \in {"done", "handled", "aborted", "raised"}
    /\ attempt[j] < MaxRuns
    /\ attempt' = [attempt EXCEPT ![j] = @ + 1]
    /\ pc' = [pc EXCEPT ![j] = "start"]
    /\ NewRun(j)
    /\ UNCHANGED <<settings, db, SourceFile, obj, source_file, fs, ext, error>>

Next ==
    \E j \in JobIds :
        \/ create_static_mix(j)
        \/ create_dynamic_mix(j)
        \/ fetch_youtube_audio(j)
        \/ Requeue(j)

\* one worker runs the task of one id, which may be queued again
Spec == Init /\ [][Next]_vars

NextParallel ==
    \E j \in JobIds :
        \/ create_static_mix(j)
        \/ create_dynamic_mix(j)
        \/ fetch_youtube_audio(j)

\* parallel workers, the task of each id queued once
Parallel == InitParallel /\ [][NextParallel]_vars

\* =============================================================== claims
Ended == {"done", "handled", "aborted", "raised"}
Fetches == {j \in JobIds : kind[j] = "fetch"}
Dynamics == {j \in JobIds : kind[j] = "dynamic"}

\* the row that carries the output file reference of the job
FileRow(j) == IF kind[j] = "fetch" THEN SourceFile[j] ELSE db[j]

\* C1: every run of a task that found its row ends with the persisted
\* status of that row DONE or ERROR; no run ends leaving it IN_PROGRESS.
C1_EndsDoneOrError ==
    \A j \in JobIds :
        pc[j] \in Ended => db[j].status \in {DONE, ERROR}

\* C2: whatever exception reaches an except clause of a task (file not
\* found, soft timeout, any other), the clause leaves the row persisted
\* with status ERROR and with the message of that exception as its error.
C2_FailureRecorded ==
    [][\A j \in JobIds :
          (pc[j] \in {"except", "except_fnf", "except_timeout"} /\ pc'[j] # pc[j])
              => (db'[j].status = ERROR /\ db'[j].error = error[j])]_vars

\* C3: in every run IN_PROGRESS is persisted when the separator or
\* downloader is invoked, the output check is made only once that call has
\* been made and has returned, and DONE is persisted only in a run whose
\* output check found the output on the disk.
C3_StepOrder ==
    [][\A j \in JobIds :
          /\ (invoked'[j] /\ ~invoked[j]) => db[j].status = IN_PROGRESS
          /\ (checked'[j] # "no" /\ checked[j] = "no")
                 => (invoked[j] /\ pc[j] = "check")
          /\ (db'[j].status = DONE /\ db[j].status # DONE)
                 => (checked[j] = "pass" /\ invoked[j])]_vars

\* a run has persisted DONE after its output check passed
C3_Witness ==
    \E j \in JobIds :
        pc[j] = "done" /\ db[j].status = DONE /\ checked[j] = "pass" /\ invoked[j]

C5_TimeoutOnlyLogs ==
    [][\A j \in JobIds :
          /\ (pc'[j] = "except_timeout" \/ pc[j] = "except_timeout")
                 => (db' = db /\ SourceFile' = SourceFile
                       /\ pc'[j] \in {"except_timeout", "aborted"}
                       /\ attempt'[j] = attempt[j])
          /\ (pc[j] = "aborted" /\ j \in Fetches)
                 => (pc'[j] = "aborted" /\ attempt'[j] = attempt[j])]_vars

\* a fetch_youtube_audio attempt has been aborted by the soft timeout and
\* has returned
C5_Witness ==
    \E j \in Fetches :
        pc[j] = "aborted" /\ invoked[j] /\ db[j].status = IN_PROGRESS

LocalFilesSettled(j) ==
    IF ~is_local
    THEN fs[j] = NoDir
    ELSE /\ FileRow(j).file.st = "name"
         /\ FileRow(j).file.names # {}
         /\ FileRow(j).file.names \subseteq fs[j].files

LookedUpRow(j) == IF kind[j] = "fetch" THEN SourceFile[j] ELSE db[j]

\* C8: a task whose row does not exist returns at once: no row is written,
\* no directory is made, the separator or downloader is not invoked, and
\* the task is not run again.
C8_StaleIsNoOp ==
    /\ [](\A j \in JobIds :
            pc[j] = "stale"
                => (~invoked[j] /\ fs[j] = NoDir /\ ext[j] = {}
                      /\ attempt[j] = 1 /\ db[j] \in {NewRow, NoRow}
                      /\ SourceFile[j] = NoRow))
    /\ [][\A j \in JobIds :
            /\ (pc[j] = "start" /\ ~LookedUpRow(j).exists /\ pc'[j] # pc[j])
                   => (pc'[j] = "stale" /\ db' = db /\ SourceFile' = SourceFile
                         /\ fs' = fs /\ ext' = ext /\ attempt' = attempt
                         /\ ~invoked'[j])
            /\ pc[j] = "stale"
                   => (pc'[j] = "stale" /\ attempt'[j] = attempt[j])]_vars

\* a stale fetch_youtube_audio has returned although its download task row
\* is still there
C8_Witness ==
    \E j \in Fetches :
        pc[j] = "stale" /\ ~SourceFile[j].exists /\ db[j] = NewRow

\* C9: exists_all_parts is true exactly when the four part files are on the
\* disk; create_dynamic_mix persists DONE only in a run whose check found
\* all four; when one is missing nothing is renamed, no file reference is
\* set, and the row is persisted with ERROR and 'Error writing to file'.
C9_AllPartsOrError ==
    /\ [](\A j \in Dynamics :
            pc[j] = "check"
                => (exists_all_parts(fs[j].files)
                      <=> SeparatorFiles \subseteq fs[j].files))
    /\ [][\A j \in Dynamics :
            /\ (db'[j].status = DONE /\ db[j].status # DONE)
                   => checked[j] = "pass"
            /\ (pc[j] = "check" /\ pc'[j] # pc[j]
                  /\ ~(SeparatorFiles \subseteq fs[j].files))
                   => (fs'[j] = fs[j] /\ obj'[j] = obj[j]
                         /\ pc'[j] = "except" /\ error'[j] = MsgNotWritten)
            /\ (pc[j] = "except" /\ checked[j] = "fail" /\ pc'[j] # pc[j])
                   => (db'[j] = [db[j] EXCEPT !.status = ERROR,
                                              !.error = "Error writing to file"]
                         /\ fs'[j] = fs[j] /\ pc'[j] = "handled")]_vars

\* the separator wrote some but not all parts and the run has ended with
\* the error recorded
C9_Witness ==
    \E j \in Dynamics :
        /\ pc[j] = "handled" /\ checked[j] = "fail" /\ produced[j]
        /\ db[j].status = ERROR /\ db[j].error = "Error writing to file"
        /\ fs[j].files # {}

\* C10: with external storage a local output file is deleted only once the
\* row carrying its content has been saved: whenever a run has deleted
\* local files, the row refers to them as stored.
C10_SavedBeforeDeleted ==
    \A j \in JobIds :
        (~is_local /\ removed[j] # {})
            => (FileRow(j).file.st = "stored"
                  /\ removed[j] \subseteq FileRow(j).file.names
                  /\ removed[j] \subseteq ext[j])

\* C11: in fetch_youtube_audio the two rows are consistent in every state
\* another reader can see: whenever the download-task row is persisted with
\* status DONE, the source-file row is persisted with the file reference of
\* the downloaded audio.
C11_RowsConsistent ==
    \A j \in Fetches :
        db[j].status = DONE
            => /\ SourceFile[j].exists
               /\ SourceFile[j].file.st \in {"name", "stored"}
               /\ filename \in SourceFile[j].file.names

\* C12: a row persisted with status ERROR carries no output file reference:
\* the save of an exception handler persists status ERROR and no file
\* reference that was assigned to the object earlier in the same run, so it
\* leaves the file reference of the row as it was.
C12_HandlerPersistsNoFile ==
    [][\A j \in JobIds :
          (pc[j] \in {"except", "except_fnf"} /\ db'[j] # db[j])
              => (db'[j].status = ERROR /\ db'[j].file = db[j].file)]_vars

\* C13: a row persisted with status DONE has an empty error field, also
\* when the run that succeeded is a retry or a re-run that follows a failed
\* attempt which stored an error message on the same row.
C13_DoneHasNoError ==
    \A j \in JobIds : db[j].status = DONE => db[j].error = ""

====
